---- MODULE Spec2Model ----
(***************************************************************************)
(* Model of Sandbox/Midas/MiDaS/liveRun.py: run() loads a MiDaS depth      *)
(* network, opens the camera and then loops                                *)
(*   read -> transform -> if ret: infer -> scale/cast -> threshold ->      *)
(*   contours -> draw/show -> waitKey -> break on ESC.                     *)
(* The program counter pc walks the statements of run(); every local of    *)
(* run() that is written in the loop is a variable of the model, and keeps *)
(* its value across iterations exactly as the Python local does.           *)
(*                                                                         *)
(* Abstractions.  An image is its numpy shape plus the values at           *)
(* NumSamples sample points along a scan line.  A camera frame carries, as *)
(* its content ("scene"), the depth the fixed network infers at those      *)
(* sample points after the bicubic upsampling; the network itself is an    *)
(* external pretrained artifact.  Depths are integers (exactly             *)
(* representable in float16 and float32); prediction/1000 and the product  *)
(* by 255 are each rounded to the precision of the prediction array.       *)
(***************************************************************************)
EXTENDS Integers, Sequences, FiniteSets

VARIABLES pc, optimize, device, castMode, model, camera, windows,
          ret, img, img_input, sample, prediction, output, blurred,
          contours, k, shown

vars == <<pc, optimize, device, castMode, model, camera, windows,
          ret, img, img_input, sample, prediction, output, blurred,
          contours, k, shown>>

(***************************************************************************)
(* Bounds of the model.                                                    *)
(***************************************************************************)
\* number of sample points kept of every image
NumSamples == 2
\* frame heights and widths 1..MaxDim are tried by the resize specification
MaxDim == 20

(***************************************************************************)
(* Program constants.                                                      *)
(***************************************************************************)
net_w == 256
net_h == 256
ensure_multiple_of == 32
resize_mode == "upper_bound"
keep_aspect_ratio == TRUE
thresh == 125
maxval == 255
ESC == 27

\* a Python name that is not bound yet
Unbound == "unbound"
\* the name k: <<>> while not bound, <<v>> when bound to the integer v
UnboundKey == <<>>
\* the value None as an image
None == [kind |-> "None", shape |-> <<>>, vals |-> <<>>, drawn |-> {}]

(***************************************************************************)
(* Inputs.                                                                 *)
(***************************************************************************)
\* depths (after upsampling) a scene can hold at a sample point; bicubic
\* interpolation can undershoot below 0 although the network is non-negative
PredValues == {-4, 0, 98, 490, 491, 498, 1000, 1004, 1495}
\* a scene: background depth 0 with at most one sample point of another depth
Scenes == {[i \in 1..NumSamples |-> IF i = j THEN v ELSE 0] :
              j \in 1..NumSamples, v \in PredValues}
\* a scene with two near sample points
NearScene == [i \in 1..NumSamples |-> 1000]
\* frame shapes <<height, width>> the camera delivers in the loop model
FrameShapes == {<<480, 640>>, <<2, 3>>, <<1, 8>>, <<8, 1>>, <<1, 1>>, <<4, 100>>}
NormalShape == <<480, 640>>
Frame(shape, scene) ==
    [kind |-> "ndarray", shape |-> shape \o <<3>>, vals |-> scene, drawn |-> {}]
Frames == {Frame(NormalShape, s) : s \in Scenes \cup {NearScene}}
          \cup {Frame(sh, NearScene) : sh \in FrameShapes}
\* values cv2.waitKey(1) returns: no key, ESC, 'q', ESC with a modifier flag
\* in the upper bits
Keys == {-1, 27, 113, 1048603}
\* frame heights and widths of the resize specification
Dims == (1..MaxDim) \cup {240, 480, 640}

(***************************************************************************)
(* Exact rationals <<numerator, denominator>>, denominator > 0, standing   *)
(* for the floats of the size computation.                                 *)
(***************************************************************************)
Rat(n, d) == <<n, d>>
RatLess(a, b) == a[1] * b[2] < b[1] * a[2]
RatTimes(a, n) == <<a[1] * n, a[2]>>
RatOver(a, n) == <<a[1], a[2] * n>>
Abs(n) == IF n < 0 THEN -n ELSE n
\* abs(1 - a)
AbsOneMinus(a) == <<Abs(a[2] - a[1]), a[2]>>
\* np.floor, np.ceil and np.round (round half to even) of a rational >= 0
np_floor(a) == a[1] \div a[2]
np_ceil(a) == IF a[1] % a[2] = 0 THEN a[1] \div a[2] ELSE (a[1] \div a[2]) + 1
np_round(a) ==
    LET q == a[1] \div a[2]
        r == a[1] % a[2]
    IN  IF 2 * r < a[2] THEN q
        ELSE IF 2 * r > a[2] THEN q + 1
        ELSE IF q % 2 = 0 THEN q ELSE q + 1

(***************************************************************************)
(* midas.transforms.Resize as configured by run().  max_val is the set     *)
(* {} for None and {m} for the bound m.                                    *)
(***************************************************************************)
constrain_to_multiple_of(x, min_val, max_val) ==
    LET y0 == np_round(RatOver(x, ensure_multiple_of)) * ensure_multiple_of
        y1 == IF \E m \in max_val : y0 > m
              THEN np_floor(RatOver(x, ensure_multiple_of)) * ensure_multiple_of
              ELSE y0
    IN  IF y1 < min_val
        THEN np_ceil(RatOver(x, ensure_multiple_of)) * ensure_multiple_of
        ELSE y1

\* variant: the scale that fits the smaller side, with no upper bound
get_size_fit_smaller(width, height) ==
    LET sh0 == Rat(net_h, height)
        sw0 == Rat(net_w, width)
        scale == IF RatLess(sw0, sh0) THEN sh0 ELSE sw0
    IN  << constrain_to_multiple_of(RatTimes(scale, width), 0, {}),
           constrain_to_multiple_of(RatTimes(scale, height), 0, {}) >>
\* the <<new_width, new_height>> Resize computes for an image width x height
get_size(width, height) ==
    LET sh0 == Rat(net_h, height)
        sw0 == Rat(net_w, width)
        fit_width ==
            CASE resize_mode = "lower_bound" -> RatLess(sh0, sw0)
              [] resize_mode = "upper_bound" -> RatLess(sw0, sh0)
              [] resize_mode = "minimal" ->
                     RatLess(AbsOneMinus(sw0), AbsOneMinus(sh0))
        scale_height == IF keep_aspect_ratio /\ fit_width THEN sw0 ELSE sh0
        scale_width == IF keep_aspect_ratio /\ ~fit_width THEN sh0 ELSE sw0
        min_h == IF resize_mode = "lower_bound" THEN net_h ELSE 0
        min_w == IF resize_mode = "lower_bound" THEN net_w ELSE 0
        max_h == IF resize_mode = "upper_bound" THEN {net_h} ELSE {}
        max_w == IF resize_mode = "upper_bound" THEN {net_w} ELSE {}
    IN  << constrain_to_multiple_of(RatTimes(scale_width, width), min_w, max_w),
           constrain_to_multiple_of(RatTimes(scale_height, height), min_h, max_h) >>

(***************************************************************************)
(* Tensor and array helpers.                                               *)
(***************************************************************************)
\* torch.Tensor.squeeze(): every dimension of size 1 is removed
squeeze(shape) == SelectSeq(shape, LAMBDA d : d # 1)
\* the shape of the array OpenCV hands back for an array of this shape:
\* a 1-d array of n is an n x 1 matrix
cv_shape(shape) == IF Len(shape) = 1 THEN <<shape[1], 1>> ELSE shape

\* variant: upsampling to the network's input size instead of the frame's
interpolate_size_net(image, net_input) == SubSeq(net_input.shape, 2, 3)
\* size= of torch.nn.functional.interpolate: the captured frame's height
\* and width
interpolate_size(image, net_input) == SubSeq(image.shape, 1, 2)

(***************************************************************************)
(* Binary floating point.  A float is [s, m, e], the value s * m * 2^e     *)
(* with s the sign (1 or -1) and 0 <= m < 2^(significand bits).  Every     *)
(* operation rounds the exact result to nearest, ties to even.             *)
(***************************************************************************)
RECURSIVE Pow2(_)
Pow2(n) == IF n = 0 THEN 1 ELSE 2 * Pow2(n - 1)
\* significand bits (with the hidden bit) of a dtype
SignificandBits(dtype) == IF dtype = "float16" THEN 11 ELSE 24
\* exponent of the last significand bit of the smallest normal number
MinExponent(dtype) == IF dtype = "float16" THEN -24 ELSE -149
Sign(n) == IF n < 0 THEN -1 ELSE 1
\* the float nearest to s * (m + r/d) * 2^e, where 0 <= r < d
RECURSIVE RoundToFloat(_, _, _, _, _, _)
RoundToFloat(dtype, s, m, r, d, e) ==
    LET t == SignificandBits(dtype)
    IN  IF m = 0 /\ r = 0 THEN [s |-> s, m |-> 0, e |-> 0]
        ELSE IF m >= Pow2(t)
        THEN RoundToFloat(dtype, s, m \div 2, (m % 2) * d + r, 2 * d, e + 1)
        ELSE IF m < Pow2(t - 1) /\ e > MinExponent(dtype)
        THEN RoundToFloat(dtype, s, 2 * m + (IF 2 * r >= d THEN 1 ELSE 0),
                          (2 * r) % d, d, e - 1)
        ELSE [s |-> s,
              m |-> IF 2 * r > d \/ (2 * r = d /\ m % 2 = 1) THEN m + 1 ELSE m,
              e |-> e]
\* the integer n divided by the integer c > 0, in the given precision
FloatDiv(n, c, dtype) ==
    RoundToFloat(dtype, Sign(n), Abs(n) \div c, Abs(n) % c, c, 0)
\* the float f times the integer c in 1..255, in the given precision
FloatTimes(f, c, dtype) ==
    RoundToFloat(dtype, f.s, (f.m \div 256) * c + ((f.m % 256) * c) \div 256,
                 ((f.m % 256) * c) % 256, 256, f.e + 8)

\* variant: the scale factor 255 left out
output_image_unscaled(p, dtype) == FloatDiv(p, 1000, dtype)
\* (prediction/1000)*255 of one value of a prediction array of this dtype
output_image_of(p, dtype) == FloatTimes(FloatDiv(p, 1000, dtype), 255, dtype)
\* truncation toward zero, the defined part of a float -> integer cast
trunc(f) ==
    f.s * (IF f.e >= 0 THEN f.m * Pow2(f.e)
           ELSE IF -f.e > 30 THEN 0
           ELSE f.m \div Pow2(-f.e))
\* ndarray.astype(np.uint8) of one float: defined when the truncated value
\* fits 0..255; otherwise the C cast is undefined and the build decides
\* ("wrap": low 8 bits of the integer; "saturate": clamped)
astype_uint8(a, mode) ==
    LET t == trunc(a)
    IN  IF t \in 0..255 THEN t
        ELSE IF mode = "wrap" THEN t % 256
        ELSE IF t < 0 THEN 0 ELSE 255

\* variant: a threshold that counts src = thresh as foreground
threshold_binary_geq(src) == IF src >= thresh THEN maxval ELSE 0
\* cv2.threshold(src, thresh, maxval, cv2.THRESH_BINARY) of one pixel
threshold_binary(src) == IF src > thresh THEN maxval ELSE 0

\* cv2.findContours on the sample line: one contour <<first, last>> per
\* maximal run of non-zero samples
findContours(mask) ==
    {<<a, b>> \in (1..Len(mask)) \X (1..Len(mask)) :
        /\ a <= b
        /\ \A i \in a..b : mask[i] # 0
        /\ (a = 1 \/ mask[a - 1] = 0)
        /\ (b = Len(mask) \/ mask[b + 1] = 0)}

\* the condition under which the model is converted (lines 100, 106)
ModelOptimized(opt, dev) == opt = TRUE /\ dev = "cuda"
\* variant: the sample converted whenever optimize is set, whatever the device
SampleOptimized_anyDevice(opt, dev) == opt = TRUE
\* the condition under which each input sample is converted (line 140)
SampleOptimized(opt, dev) == opt = TRUE /\ dev = "cuda"
\* variants: exit on 'q' instead of ESC; exit on any key press
IsEscape_q(key) == key % 256 = 113
IsEscape_anykey(key) == key # -1
\* the exit test on the value of cv2.waitKey
IsEscape(key) == key % 256 = ESC
\* truth value of ret in `if ret:`
Truthy(r) == r \notin {"False", "None", Unbound}

(***************************************************************************)
(* State of run().                                                         *)
(***************************************************************************)
\* an array or tensor name that is not bound yet
UnboundArray ==
    [kind |-> "unbound", shape |-> <<>>, vals |-> <<>>, drawn |-> {}]
UnboundTensor ==
    [kind |-> "unbound", shape |-> <<>>, vals |-> <<>>, dtype |-> "none",
     channels_last |-> FALSE]
UnboundModel == [dtype |-> "none", channels_last |-> FALSE, device |-> "none"]

Init ==
    /\ pc = "initialize"
    /\ optimize \in BOOLEAN
    /\ castMode \in {"wrap", "saturate"}
    /\ device = Unbound
    /\ model = UnboundModel
    /\ camera = Unbound
    /\ windows = {}
    /\ ret = Unbound
    /\ img = UnboundArray
    /\ img_input = UnboundArray
    /\ sample = UnboundTensor
    /\ prediction = UnboundTensor
    /\ output = UnboundArray
    /\ blurred = UnboundArray
    /\ contours = {}
    /\ k = UnboundKey
    /\ shown = [input |-> UnboundArray, blurred |-> UnboundArray,
                output |-> UnboundArray]

\* lines 58-62: select device
Initialize ==
    /\ pc = "initialize"
    /\ device' \in {"cuda", "cpu"}
    /\ pc' = "load_model"
    /\ UNCHANGED <<optimize, castMode, model, camera, windows, ret, img,
                   img_input, sample, prediction, output, blurred, contours,
                   k, shown>>

\* lines 65-110: build the network from the checkpoint (a checkpoint that
\* cannot be loaded raises), convert it when optimizing on a GPU, move it to
\* the device
LoadModel ==
    /\ pc = "load_model"
    /\ \E loadable \in BOOLEAN :
          IF loadable
          THEN /\ model' = [dtype |-> IF ModelOptimized(optimize, device)
                                      THEN "float16" ELSE "float32",
                            channels_last |-> ModelOptimized(optimize, device),
                            device |-> device]
               /\ pc' = "prepare_output"
          ELSE pc' = "fault" /\ UNCHANGED model
    /\ UNCHANGED <<optimize, device, castMode, camera, windows, ret, img,
                   img_input, sample, prediction, output, blurred, contours,
                   k, shown>>

\* lines 113-119: list the input folder, create the output folder;
\* os.makedirs(output_path, exist_ok=True) raises when output_path is an
\* existing file or cannot be created
PrepareOutput ==
    /\ pc = "prepare_output"
    /\ \E creatable \in BOOLEAN :
          pc' = IF creatable THEN "open_camera" ELSE "fault"
    /\ UNCHANGED <<optimize, device, castMode, model, camera, windows, ret,
                   img, img_input, sample, prediction, output, blurred,
                   contours, k, shown>>

\* lines 121-125: open the camera, create the window "input"
OpenCamera ==
    /\ pc = "open_camera"
    /\ camera' = "open"
    /\ windows' = {"input"}
    /\ pc' = "read"
    /\ UNCHANGED <<optimize, device, castMode, model, ret, img, img_input,
                   sample, prediction, output, blurred, contours, k, shown>>

\* line 131: ret, img = camera.read(); a failed read gives (False, None)
Read ==
    /\ pc = "read"
    /\ \/ \E f \in Frames : ret' = "True" /\ img' = f
       \/ ret' = "False" /\ img' = None
    /\ pc' = "transform"
    /\ UNCHANGED <<optimize, device, castMode, model, camera, windows,
                   img_input, sample, prediction, output, blurred, contours,
                   k, shown>>

\* line 133: img_input = transform({"image": img})["image"], executed before
\* ret is tested.  Resize reads img.shape (None has none) and cv2.resize
\* rejects an empty target size; otherwise the result is the 3 x H x W tensor
\* of PrepareForNet.
Transform ==
    /\ pc = "transform"
    /\ IF img.kind # "ndarray"
       THEN pc' = "fault" /\ UNCHANGED img_input
       ELSE LET size == get_size(img.shape[2], img.shape[1])
            IN  IF size[1] <= 0 \/ size[2] <= 0
                THEN pc' = "fault" /\ UNCHANGED img_input
                ELSE /\ img_input' = [kind |-> "ndarray",
                                      shape |-> <<3, size[2], size[1]>>,
                                      vals |-> img.vals, drawn |-> {}]
                     /\ pc' = "if_ret"
    /\ UNCHANGED <<optimize, device, castMode, model, camera, windows, ret,
                   img, sample, prediction, output, blurred, contours, k,
                   shown>>

\* line 135: if ret:
IfRet ==
    /\ pc = "if_ret"
    /\ pc' = IF Truthy(ret) THEN "sample" ELSE "read"
    /\ UNCHANGED <<optimize, device, castMode, model, camera, windows, ret,
                   img, img_input, sample, prediction, output, blurred,
                   contours, k, shown>>

\* lines 139-142: the input sample, converted when optimizing on a GPU
MakeSample ==
    /\ pc = "sample"
    /\ sample' = [kind |-> "tensor",
                  shape |-> <<1>> \o img_input.shape,
                  vals |-> img_input.vals,
                  dtype |-> IF SampleOptimized(optimize, device)
                            THEN "float16" ELSE "float32",
                  channels_last |-> SampleOptimized(optimize, device)]
    /\ pc' = "forward"
    /\ UNCHANGED <<optimize, device, castMode, model, camera, windows, ret,
                   img, img_input, prediction, output, blurred, contours, k,
                   shown>>

\* lines 143-154: forward pass (torch refuses an input whose dtype differs
\* from the weights'), bicubic upsampling to img.shape[:2], squeeze
Forward ==
    /\ pc = "forward"
    /\ IF sample.dtype # model.dtype
       THEN pc' = "fault" /\ UNCHANGED prediction
       ELSE /\ prediction' = [kind |-> "ndarray",
                              shape |-> squeeze(<<1, 1>> \o interpolate_size(img, img_input)),
                              vals |-> sample.vals,
                              dtype |-> sample.dtype,
                              channels_last |-> FALSE]
            /\ pc' = "postprocess"
    /\ UNCHANGED <<optimize, device, castMode, model, camera, windows, ret,
                   img, img_input, sample, output, blurred, contours, k,
                   shown>>

\* lines 162-164: output = ((prediction/1000)*255).astype(np.uint8); the
\* arithmetic on a 0-d prediction (a 1x1 frame) gives a numpy scalar
Postprocess ==
    /\ pc = "postprocess"
    /\ output' = [kind |-> IF prediction.shape = <<>> THEN "scalar"
                           ELSE "ndarray",
                  shape |-> prediction.shape,
                  vals |-> [i \in DOMAIN prediction.vals |->
                              astype_uint8(output_image_of(prediction.vals[i],
                                                           prediction.dtype),
                                           castMode)],
                  drawn |-> {}]
    /\ pc' = "segment"
    /\ UNCHANGED <<optimize, device, castMode, model, camera, windows, ret,
                   img, img_input, sample, prediction, blurred, contours, k,
                   shown>>

\* lines 166-170: ret, blurred = cv2.threshold(...); contours = findContours;
\* cv2.threshold rejects a numpy scalar
Segment ==
    /\ pc = "segment"
    /\ IF output.kind = "scalar"
       THEN pc' = "fault" /\ UNCHANGED <<ret, blurred, contours>>
       ELSE /\ ret' = "125.0"
            /\ blurred' = [kind |-> "ndarray",
                           shape |-> cv_shape(output.shape),
                           vals |-> [i \in DOMAIN output.vals |->
                                       threshold_binary(output.vals[i])],
                           drawn |-> {}]
            /\ contours' = findContours(blurred'.vals)
            /\ pc' = "render"
    /\ UNCHANGED <<optimize, device, castMode, model, camera, windows, img,
                   img_input, sample, prediction, output, k, shown>>

\* variant: the contours of the previous frame stay drawn in the frame buffer
Render_overdraw ==
    /\ pc = "render"
    /\ img' = [img EXCEPT !.drawn = contours \cup shown.input.drawn]
    /\ shown' = [input |-> img', blurred |-> blurred, output |-> output]
    /\ windows' = windows \cup {"input", "blurred", "output"}
    /\ pc' = "waitKey"
    /\ UNCHANGED <<optimize, device, castMode, model, camera, ret, img_input,
                   sample, prediction, output, blurred, contours, k>>

\* lines 172-180: draw the contours into img, show the three images
Render ==
    /\ pc = "render"
    /\ img' = [img EXCEPT !.drawn = contours]
    /\ shown' = [input |-> img', blurred |-> blurred, output |-> output]
    /\ windows' = windows \cup {"input", "blurred", "output"}
    /\ pc' = "waitKey"
    /\ UNCHANGED <<optimize, device, castMode, model, camera, ret, img_input,
                   sample, prediction, output, blurred, contours, k>>

\* line 182: k = cv2.waitKey(1)
WaitKey ==
    /\ pc = "waitKey"
    /\ \E key \in Keys : k' = <<key>>
    /\ pc' = "key_test"
    /\ UNCHANGED <<optimize, device, castMode, model, camera, windows, ret,
                   img, img_input, sample, prediction, output, blurred,
                   contours, shown>>

\* variant: a shutdown on ESC that releases the camera and destroys the windows
KeyTest_release ==
    /\ pc = "key_test"
    /\ IF IsEscape(k[1])
       THEN pc' = "finished" /\ camera' = "released" /\ windows' = {}
       ELSE pc' = "read" /\ UNCHANGED <<camera, windows>>
    /\ UNCHANGED <<optimize, device, castMode, model, ret, img, img_input,
                   sample, prediction, output, blurred, contours, k, shown>>

\* lines 183-189: break on ESC and print "finished", else loop
KeyTest ==
    /\ pc = "key_test"
    /\ pc' = IF IsEscape(k[1]) THEN "finished" ELSE "read"
    /\ UNCHANGED <<optimize, device, castMode, model, camera, windows, ret,
                   img, img_input, sample, prediction, output, blurred,
                   contours, k, shown>>

Next ==
    \/ Initialize
    \/ LoadModel
    \/ PrepareOutput
    \/ OpenCamera
    \/ Read
    \/ Transform
    \/ IfRet
    \/ MakeSample
    \/ Forward
    \/ Postprocess
    \/ Segment
    \/ Render
    \/ WaitKey
    \/ KeyTest

Spec == Init /\ [][Next]_vars

(***************************************************************************)
(* The resize specification: the preprocessing transform applied once to a *)
(* captured frame of every height and width in Dims.                       *)
(***************************************************************************)
InitResize ==
    /\ pc = "transform"
    /\ optimize = TRUE
    /\ castMode = "wrap"
    /\ device = "cpu"
    /\ model = [dtype |-> "float32", channels_last |-> FALSE, device |-> "cpu"]
    /\ camera = "open"
    /\ windows = {"input"}
    /\ ret = "True"
    /\ \E h \in Dims, w \in Dims : img = Frame(<<h, w>>, NearScene)
    /\ img_input = UnboundArray
    /\ sample = UnboundTensor
    /\ prediction = UnboundTensor
    /\ output = UnboundArray
    /\ blurred = UnboundArray
    /\ contours = {}
    /\ k = UnboundKey
    /\ shown = [input |-> UnboundArray, blurred |-> UnboundArray,
                output |-> UnboundArray]

NextResize == Transform

SpecResize == InitResize /\ [][NextResize]_vars

(***************************************************************************)
(* Properties.                                                             *)
(***************************************************************************)
\* the states in which output, blurred, contours and the shown images all
\* belong to the frame captured in the current iteration
Rendered == pc \in {"waitKey", "key_test", "finished"}

\* C1: an iteration whose camera.read() failed (ret False, img None) is
\* skipped silently: it raises no fault, runs no inference, rendering or key
\* poll, and the loop goes on to the next camera.read().
C1_FailedCaptureSkipped ==
    ret = "False" => pc \in {"transform", "if_ret", "read"}

\* C2: when cv2.waitKey returns 27 in an iteration with a successful capture,
\* the next step of that iteration ends the loop in "finished", without a
\* fault.
C2_EscTerminates ==
    [][(pc = "key_test" /\ k = <<27>>) => pc' = "finished"]_vars
C2_Witness == pc = "finished" /\ k = <<27>> /\ shown.input.kind = "ndarray"

\* C3 as stated: the loop reaches "finished" only in an iteration whose key
\* poll returned exactly 27.
C3_OnlyExactEsc ==
    [][(pc # "finished" /\ pc' = "finished") => k = <<27>>]_vars
\* C3 amended: the loop reaches "finished" only from the key test, and the
\* key test ends the loop exactly when the polled value is congruent to 27
\* modulo 256; every other value sends the loop back to camera.read().
C3_OnlyEscModulo256 ==
    [][/\ (pc # "finished" /\ pc' = "finished") => pc = "key_test"
       /\ pc = "key_test" =>
            /\ (k[1] % 256 = 27 => pc' = "finished")
            /\ (k[1] % 256 # 27 => pc' = "read")]_vars
C3_Witness == pc = "finished" /\ k = <<1048603>>

\* C4 as stated: mask pixel = 0 below 125 and 255 at or above 125.
C4_AtOrAbove ==
    (blurred.kind = "ndarray" /\ output.kind = "ndarray" /\ pc # "segment") =>
        \A i \in DOMAIN output.vals :
            blurred.vals[i] = IF output.vals[i] >= 125 THEN 255 ELSE 0
\* C4 amended: the mask is two-valued, 255 where the intensity is strictly
\* above 125 and 0 where it is at most 125 (intensity 125 is background).
C4_StrictlyAbove ==
    (blurred.kind = "ndarray" /\ output.kind = "ndarray" /\ pc # "segment") =>
        /\ DOMAIN blurred.vals = DOMAIN output.vals
        /\ \A i \in DOMAIN output.vals :
              blurred.vals[i] = IF output.vals[i] > 125 THEN 255 ELSE 0
C4_Witness ==
    /\ pc = "render"
    /\ \E i \in DOMAIN output.vals : output.vals[i] = 125 /\ blurred.vals[i] = 0
    /\ \E i \in DOMAIN output.vals : output.vals[i] = 0

\* C5 as stated: for a frame of any positive height and width the
\* transform yields a tensor whose height and width are multiples of 32 and
\* at most 256.
C5_AnyFrameYieldsTensor ==
    pc # "transform" =>
        /\ pc = "if_ret"
        /\ img_input.shape[2] % 32 = 0
        /\ img_input.shape[3] % 32 = 0
        /\ img_input.shape[2] <= 256
        /\ img_input.shape[3] <= 256
\* C5 amended: for a frame whose larger side is less than 16 times its
\* smaller side the transform yields a tensor whose height and width are
\* multiples of 32, at least 32 and at most 256.
C5_ResizeMultipleAndBounded ==
    LET h == img.shape[1]
        w == img.shape[2]
    IN  (pc # "transform" /\ 16 * h > w /\ 16 * w > h) =>
            /\ pc = "if_ret"
            /\ \A d \in {img_input.shape[2], img_input.shape[3]} :
                  d % 32 = 0 /\ d >= 32 /\ d <= 256
\* a frame 16 or more times longer than wide gets no tensor
C5_ElongatedFrameFaults ==
    pc = "fault" /\ img.shape = <<1, 16, 3>>
C5_Witness ==
    /\ pc = "if_ret"
    /\ img.shape = <<480, 640, 3>>
    /\ img_input.shape = <<3, 192, 256>>

\* C6: after rendering, the intensity image, the mask, the contour set and
\* the annotated frame are the values the pipeline gives for the frame
\* captured in this iteration, whatever the earlier iterations left in the
\* variables.
C6_OutputsFunctionOfFrame ==
    Rendered =>
        LET scene == img.vals
            intensity == [i \in DOMAIN scene |->
                            astype_uint8(output_image_of(scene[i], model.dtype),
                                         castMode)]
            mask == [i \in DOMAIN scene |->
                        IF intensity[i] > 125 THEN 255 ELSE 0]
        IN  /\ output.vals = intensity
            /\ blurred.vals = mask
            /\ contours = findContours(mask)
            /\ img.drawn = contours
            /\ shown = [input |-> img, blurred |-> blurred, output |-> output]
C6_Witness ==
    /\ pc = "waitKey"
    /\ k = <<113>>
    /\ contours # {}

\* C7: the model is half precision / channels-last exactly when optimize is
\* set and the device is the GPU, and every input sample has the model's
\* precision and layout.
C7_PrecisionConsistent ==
    /\ pc \notin {"initialize", "load_model", "fault"} => model # UnboundModel
    /\ model # UnboundModel =>
          /\ model.dtype \in {"float16", "float32"}
          /\ (model.dtype = "float16") <=> (optimize /\ device = "cuda")
          /\ model.channels_last <=> (optimize /\ device = "cuda")
    /\ sample.kind = "tensor" =>
          /\ sample.dtype = model.dtype
          /\ sample.channels_last = model.channels_last
C7_Witness ==
    /\ pc = "postprocess"
    /\ sample.dtype = "float16"
    /\ model.dtype = "float16"

\* the 8-bit intensity and the prediction belong to the same frame
Scaled == output.kind # "unbound" /\ pc # "postprocess"

\* C8 as stated: a non-negative prediction p becomes floor(p*255/1000)
\* modulo 256.
C8_AlwaysWraps ==
    Scaled =>
        \A i \in DOMAIN prediction.vals :
            prediction.vals[i] >= 0 =>
                output.vals[i] = ((prediction.vals[i] * 255) \div 1000) % 256
\* C8 amended: a non-negative prediction p becomes a value in 0..255, the
\* truncated floating-point product (p/1000)*255 in the precision of the
\* prediction when that is at most 255: floor(p*255/1000) in single
\* precision, floor(p*255/1000) or one more in half precision (quotient and
\* product are each rounded to float16).  Above 255 nothing clamps it and
\* the cast gives what the build's float-to-uint8 conversion gives: the
\* truncated product modulo 256, or 255.
C8_ScaledAndCast ==
    Scaled =>
        \A i \in DOMAIN prediction.vals :
            LET p == prediction.vals[i]
                v == (p * 255) \div 1000
                o == output.vals[i]
            IN  p >= 0 =>
                  /\ o \in 0..255
                  /\ (prediction.dtype = "float32" /\ v <= 255) => o = v
                  /\ (prediction.dtype = "float32" /\ v > 255) =>
                        o \in {v % 256, 255}
                  /\ (prediction.dtype = "float16" /\ v < 255) =>
                        o \in {v, v + 1}
                  /\ (prediction.dtype = "float16" /\ v >= 255) =>
                        o \in {v % 256, (v + 1) % 256, 255}
\* the half-precision path gives one more than the exact floor
C8_HalfRoundsUp ==
    /\ pc = "segment"
    /\ prediction.dtype = "float16"
    /\ \E i \in DOMAIN prediction.vals :
          prediction.vals[i] = 98 /\ output.vals[i] = 25
C8_Witness ==
    /\ pc = "segment"
    /\ \E i \in DOMAIN prediction.vals :
          prediction.vals[i] = 1495 /\ output.vals[i] = 125

\* C9 as stated: for every frame size the images shown in "output" and
\* "blurred" have the height and width of the frame shown in "input".
C9_SameExtentEveryFrame ==
    Rendered =>
        /\ shown.output.shape = SubSeq(shown.input.shape, 1, 2)
        /\ shown.blurred.shape = SubSeq(shown.input.shape, 1, 2)
\* C9 amended: the same, for every frame whose height and width are both at
\* least 2 (squeeze() also drops a frame dimension of size 1).
C9_SameExtent ==
    (Rendered /\ shown.input.shape[1] >= 2 /\ shown.input.shape[2] >= 2) =>
        /\ shown.output.shape = SubSeq(shown.input.shape, 1, 2)
        /\ shown.blurred.shape = SubSeq(shown.input.shape, 1, 2)
C9_Witness ==
    /\ pc = "waitKey"
    /\ shown.input.shape = <<2, 3, 3>>
    /\ shown.output.shape = <<2, 3>>
    /\ shown.blurred.shape = <<2, 3>>

\* a fault that ends the loop: one raised after the first camera.read()
LoopFault == pc = "fault" /\ ret # Unbound

\* C10: once opened the camera is never released and no window is ever
\* destroyed: in "finished" and at a fault that ends the loop the camera is
\* open and the windows created so far still exist.
C10_NothingReleased ==
    /\ [](pc = "finished" \/ LoopFault => camera = "open" /\ "input" \in windows)
    /\ [](pc = "finished" => windows = {"input", "blurred", "output"})
    /\ [][camera = "open" => (camera' = "open" /\ windows \subseteq windows')]_vars
C10_Witness ==
    /\ pc = "finished"
    /\ camera = "open"
    /\ windows = {"input", "blurred", "output"}

====
